---- MODULE Spec2Model ----
(***************************************************************************)
(* Model of auto_catalog.py: the heuristic extractors (_clean_name,        *)
(* _guess_title, _find_people, _find_year, _find_publisher,                *)
(* _guess_language), parse_pdf and build_catalog.                          *)
(*                                                                         *)
(* A Python str is modelled as a sequence of characters.  A character is   *)
(* a one-character string for printable ASCII, "\n" and "\t"; any other    *)
(* code point is written "U+XXXX" (for instance "U+00A9" is the copyright  *)
(* sign).  Regular expressions are modelled by what re.search / re.sub /   *)
(* re.split compute: leftmost match, alternatives in order, greedy         *)
(* quantifiers with backtracking.                                          *)
(***************************************************************************)
EXTENDS Integers, Sequences, FiniteSets, TLC

VARIABLES pc, arg, ret, pdfs, use_ocr, rows

vars == <<pc, arg, ret, pdfs, use_ocr, rows>>

(***************************************************************************)
(* Characters                                                              *)
(***************************************************************************)
UpperSeq == <<"A", "B", "C", "D", "E", "F", "G", "H", "I", "J", "K", "L", "M",
              "N", "O", "P", "Q", "R", "S", "T", "U", "V", "W", "X", "Y", "Z">>

LowerSeq == <<"a", "b", "c", "d", "e", "f", "g", "h", "i", "j", "k", "l", "m",
              "n", "o", "p", "q", "r", "s", "t", "u", "v", "w", "x", "y", "z">>

UpperChars == {UpperSeq[i] : i \in DOMAIN UpperSeq}

LowerChars == {LowerSeq[i] : i \in DOMAIN LowerSeq}

DigitChars == {"0", "1", "2", "3", "4", "5", "6", "7", "8", "9"}

SpaceChars == {" ", "\t", "\n"}

LowerTab == [c \in UpperChars |-> LowerSeq[CHOOSE i \in DOMAIN UpperSeq : UpperSeq[i] = c]]

\* str.lower() on one character, and the case folding of re.I
LowerCh(c) == IF c \in UpperChars THEN LowerTab[c] ELSE c

\* \s, and what str.strip() removes
IsSpace(c) == c \in SpaceChars

\* \d
IsDigit(c) == c \in DigitChars

\* the letters outside ASCII that the texts of this model use
OtherLetters ==
    {"U+024F", "U+0250", "U+0436", "U+0628", "U+0915", "U+097F", "U+0980", "U+0A15",
     "U+0A95", "U+0B15", "U+0B95", "U+0C15", "U+0C95", "U+0D15", "U+4E2D"}

\* those of them that are lower-case; none is upper-case
OtherLower == {"U+024F", "U+0250", "U+0436"}

\* \w
IsWord(c) ==
    c \in UpperChars \/ c \in LowerChars \/ c \in DigitChars \/ c = "_" \/ c \in OtherLetters

\* str.isupper() and str.islower() on one character
IsUpperCh(c) == c \in UpperChars

IsLowerCh(c) == c \in LowerChars \/ c \in OtherLower

(***************************************************************************)
(* Strings                                                                 *)
(***************************************************************************)
SetMin(S) == CHOOSE x \in S : \A y \in S : x <= y

SetMax(S) == CHOOSE x \in S : \A y \in S : x >= y

\* the element of a one-element set
Only(S) == CHOOSE x \in S : TRUE

\* s[i:] with a 1-based i
From(s, i) == SubSeq(s, i, Len(s))

\* str.lower()
lower(s) == [i \in 1..Len(s) |-> LowerCh(s[i])]

\* the first position at or after i that holds no white space (Len(s)+1 if none)
RECURSIVE SkipSpaces(_, _)
SkipSpaces(s, i) == IF i <= Len(s) /\ IsSpace(s[i]) THEN SkipSpaces(s, i + 1) ELSE i

\* the last position at or before i that holds no white space (0 if none)
RECURSIVE SkipSpacesBack(_, _)
SkipSpacesBack(s, i) == IF i >= 1 /\ IsSpace(s[i]) THEN SkipSpacesBack(s, i - 1) ELSE i

\* str.strip()
strip(s) == SubSeq(s, SkipSpaces(s, 1), SkipSpacesBack(s, Len(s)))

\* the literal lit occurs in s at position i; ci: under re.I
MatchAt(lit, s, i, ci) ==
    /\ i >= 1
    /\ i + Len(lit) - 1 <= Len(s)
    /\ \A k \in 1..Len(lit) :
          IF ci THEN LowerCh(s[i + k - 1]) = LowerCh(lit[k]) ELSE s[i + k - 1] = lit[k]

WordAt(s, i) == i >= 1 /\ i <= Len(s) /\ IsWord(s[i])

\* \b between positions i-1 and i of s (i in 1..Len(s)+1)
WordBoundary(s, i) == WordAt(s, i - 1) # WordAt(s, i)

\* the end of the run of white space that starts at i
RECURSIVE SpaceRunEnd(_, _)
SpaceRunEnd(s, i) == IF i < Len(s) /\ IsSpace(s[i + 1]) THEN SpaceRunEnd(s, i + 1) ELSE i

\* re.sub(r"\s{2,}", " ", s)
RECURSIVE CollapseFrom(_, _)
CollapseFrom(s, i) ==
    IF i > Len(s) THEN <<>>
    ELSE IF IsSpace(s[i]) /\ SpaceRunEnd(s, i) > i
         THEN <<" ">> \o CollapseFrom(s, SpaceRunEnd(s, i) + 1)
         ELSE <<s[i]>> \o CollapseFrom(s, i + 1)

CollapseSpaces(s) == CollapseFrom(s, 1)

UNKNOWN == <<"U", "n", "k", "n", "o", "w", "n">>

\* x or UNKNOWN without the default: x as it is
OrUnknown_Identity(x) == x

\* x or UNKNOWN
OrUnknown(x) == IF x = <<>> THEN UNKNOWN ELSE x

(***************************************************************************)
(* _clean_name                                                             *)
(***************************************************************************)
\* re.sub(r"[,;]\s*$", "", s): the leftmost comma or semicolon followed by
\* nothing but white space is removed with everything after it
StripTrailingSep(s) ==
    LET hits == {i \in 1..Len(s) :
                    /\ s[i] \in {",", ";"}
                    /\ \A k \in (i + 1)..Len(s) : IsSpace(s[k])}
    IN  IF hits = {} THEN s ELSE SubSeq(s, 1, SetMin(hits) - 1)

\* (Dr\.?|Prof\.?|Professor|Ph\.?D\.?|M\.?D\.?) spelled out: the strings the
\* group can match, in the order the backtracking matcher tries them
HonorificForms ==
    << <<"d", "r", ".">>, <<"d", "r">>,
       <<"p", "r", "o", "f", ".">>, <<"p", "r", "o", "f">>,
       <<"p", "r", "o", "f", "e", "s", "s", "o", "r">>,
       <<"p", "h", ".", "d", ".">>, <<"p", "h", ".", "d">>,
       <<"p", "h", "d", ".">>, <<"p", "h", "d">>,
       <<"m", ".", "d", ".">>, <<"m", ".", "d">>,
       <<"m", "d", ".">>, <<"m", "d">> >>

\* \b(...)\b\.? at position i under re.I: the position after the match, 0 if none
HonorificEnd(s, i) ==
    IF ~WordBoundary(s, i) THEN 0
    ELSE LET ok == {k \in DOMAIN HonorificForms :
                       /\ MatchAt(HonorificForms[k], s, i, TRUE)
                       /\ WordBoundary(s, i + Len(HonorificForms[k]))}
         IN  IF ok = {} THEN 0
             ELSE LET e == i + Len(HonorificForms[SetMin(ok)])
                  IN  IF e <= Len(s) /\ s[e] = "." THEN e + 1 ELSE e

\* re.sub(r"\b(Dr\.?|...)\b\.?", "", s, flags=re.I), scanning from i
RECURSIVE DropHonorificsFrom(_, _)
DropHonorificsFrom(s, i) ==
    IF i > Len(s) THEN <<>>
    ELSE IF HonorificEnd(s, i) > 0
         THEN DropHonorificsFrom(s, HonorificEnd(s, i))
         ELSE <<s[i]>> \o DropHonorificsFrom(s, i + 1)

DropHonorifics(s) == DropHonorificsFrom(s, 1)

_clean_name(s) ==
    LET s1 == StripTrailingSep(strip(s))
        s2 == DropHonorifics(s1)
        s3 == strip(CollapseSpaces(s2))
    IN  OrUnknown(s3)

(***************************************************************************)
(* _find_year                                                              *)
(***************************************************************************)
NoMatch == 0

\* (1[5-9]\d{2}|20[0-2]\d|203[0-5]) matches the four characters at j
YearDigitsAt(s, j) ==
    /\ j >= 1
    /\ j + 3 <= Len(s)
    /\ \/ /\ s[j] = "1"
          /\ s[j + 1] \in {"5", "6", "7", "8", "9"}
          /\ IsDigit(s[j + 2])
          /\ IsDigit(s[j + 3])
       \/ /\ s[j] = "2"
          /\ s[j + 1] = "0"
          /\ s[j + 2] \in {"0", "1", "2"}
          /\ IsDigit(s[j + 3])
       \/ /\ s[j] = "2"
          /\ s[j + 1] = "0"
          /\ s[j + 2] = "3"
          /\ s[j + 3] \in {"0", "1", "2", "3", "4", "5"}

\* YearAt without the lookahead (?!\d)
YearAt_NoLookahead(s, j) ==
    /\ YearDigitsAt(s, j)
    /\ (j = 1 \/ ~IsDigit(s[j - 1]))

\* year_pat = (?<!\d)(...)(?!\d) matches at j
YearAt(s, j) ==
    /\ YearDigitsAt(s, j)
    /\ (j = 1 \/ ~IsDigit(s[j - 1]))
    /\ (j + 4 > Len(s) \/ ~IsDigit(s[j + 4]))

\* re.search(year_pat, s): the start of the leftmost match, NoMatch if none
SearchYear(s) ==
    LET hits == {j \in 1..Len(s) : YearAt(s, j)}
    IN  IF hits = {} THEN NoMatch ELSE SetMin(hits)

YEAR_WINDOW == 60

YearTerms ==
    << <<"U+00A9">>,
       <<"C", "o", "p", "y", "r", "i", "g", "h", "t">>,
       <<"F", "i", "r", "s", "t", " ", "p", "u", "b", "l", "i", "s", "h", "e", "d">>,
       <<"P", "u", "b", "l", "i", "s", "h", "e", "d">>,
       <<"R", "e", "p", "r", "i", "n", "t", "e", "d">> >>

\* re.search(term + r".{0,60}" + year_pat, text, re.I | re.S).group(0): the
\* leftmost occurrence of term that has a year starting within the window,
\* extended (greedy) to the last such year; <<>> if there is no match
TermMatch(term, text) ==
    LET years  == {j \in 1..Len(text) : YearAt(text, j)}
        inWin(i) == {j \in years : /\ j >= i + Len(term)
                                   /\ j <= i + Len(term) + YEAR_WINDOW}
        starts == {i \in 1..Len(text) : MatchAt(term, text, i, TRUE) /\ inWin(i) # {}}
    IN  IF starts = {} THEN <<>>
        ELSE LET i == SetMin(starts)
             IN  SubSeq(text, i, SetMax(inWin(i)) + 3)

\* the body of the loop over the terms, from term number n on, then the fallback
RECURSIVE FindYearFrom(_, _)
FindYearFrom(text, n) ==
    IF n > Len(YearTerms)
    THEN LET j == SearchYear(text)
         IN  IF j = NoMatch THEN UNKNOWN ELSE SubSeq(text, j, j + 3)
    ELSE LET m == TermMatch(YearTerms[n], text)
             y == SearchYear(m)
         IN  IF m # <<>> /\ y # NoMatch
             THEN SubSeq(m, y, y + 3)
             ELSE FindYearFrom(text, n + 1)

\* _find_year with the terms tried from the last to the first
RECURSIVE FindYearDownFrom(_, _)
FindYearDownFrom(text, n) ==
    IF n < 1 THEN FindYearFrom(text, Len(YearTerms) + 1)
    ELSE LET m == TermMatch(YearTerms[n], text)
             y == SearchYear(m)
         IN  IF m # <<>> /\ y # NoMatch
             THEN SubSeq(m, y, y + 3)
             ELSE FindYearDownFrom(text, n - 1)

_find_year_reversed(text) == FindYearDownFrom(text, Len(YearTerms))

_find_year(text) == FindYearFrom(text, 1)

(***************************************************************************)
(* Bounded inputs                                                          *)
(***************************************************************************)
\* all sequences over S of length at most n
SeqsUpTo(S, n) == UNION {[1..k -> S] : k \in 0..n}

RECURSIVE Concat(_)
Concat(ss) == IF ss = <<>> THEN <<>> ELSE Head(ss) \o Concat(Tail(ss))

NoArg == <<>>

NoRet == <<>>

(***************************************************************************)
(* SpecClean: _clean_name applied once and then to its own result          *)
(***************************************************************************)
MaxNameLen == 4

NameChars == {"D", "r", "M", "d", ".", ",", ";", " "}

NameInputs == SeqsUpTo(NameChars, MaxNameLen)

InitClean ==
    /\ pc = "call"
    /\ arg \in NameInputs
    /\ ret = NoRet
    /\ pdfs = <<>> /\ use_ocr = FALSE /\ rows = <<>>

CleanOnce ==
    /\ pc = "call"
    /\ ret' = <<_clean_name(arg)>>
    /\ pc' = "once"
    /\ UNCHANGED <<arg, pdfs, use_ocr, rows>>

CleanTwice ==
    /\ pc = "once"
    /\ ret' = Append(ret, _clean_name(ret[1]))
    /\ pc' = "twice"
    /\ UNCHANGED <<arg, pdfs, use_ocr, rows>>

NextClean == CleanOnce \/ CleanTwice

SpecClean == InitClean /\ [][NextClean]_vars

\* C3: _clean_name is idempotent: a second application changes nothing
C3_Idempotent == pc = "twice" => ret[2] = ret[1]

(***************************************************************************)
(* SpecYear: _find_year on a text put together from a few pieces           *)
(***************************************************************************)
\* n copies of the character c
Rep(c, n) == [i \in 1..n |-> c]

MaxYearPieces == 4

YearPieces ==
    { <<"U+00A9">>,
      <<"c", "o", "p", "y", "r", "i", "g", "h", "t">>,
      <<"P", "u", "b", "l", "i", "s", "h", "e", "d">>,
      <<"R", "e", "p", "r", "i", "n", "t", "e", "d">>,
      <<"1", "9", "8", "7">>,
      <<"2", "0", "3", "5">>,
      <<"2", "0", "3", "6">>,
      <<"1", "4", "9", "9">>,
      <<"7">>,
      Rep("x", YEAR_WINDOW),
      Rep("\n", YEAR_WINDOW + 1) }

YearInputs == {Concat(ps) : ps \in SeqsUpTo(YearPieces, MaxYearPieces)}

InitYear ==
    /\ pc = "call"
    /\ arg \in YearInputs
    /\ ret = NoRet
    /\ pdfs = <<>> /\ use_ocr = FALSE /\ rows = <<>>

CallFindYear ==
    /\ pc = "call"
    /\ ret' = _find_year(arg)
    /\ pc' = "done"
    /\ UNCHANGED <<arg, pdfs, use_ocr, rows>>

NextYear == CallFindYear

SpecYear == InitYear /\ [][NextYear]_vars

\* value of a decimal digit
DigitVal(c) == CHOOSE n \in 0..9 : <<"0", "1", "2", "3", "4", "5", "6", "7", "8", "9">>[n + 1] = c

\* the four characters at j are a number of exactly four digits, with no digit
\* before or after it
StandaloneNumberAt(s, j) ==
    /\ j >= 1
    /\ j + 3 <= Len(s)
    /\ \A k \in 0..3 : IsDigit(s[j + k])
    /\ (j = 1 \/ ~IsDigit(s[j - 1]))
    /\ (j + 4 > Len(s) \/ ~IsDigit(s[j + 4]))

NumberAt(s, j) ==
    1000 * DigitVal(s[j]) + 100 * DigitVal(s[j + 1]) + 10 * DigitVal(s[j + 2]) + DigitVal(s[j + 3])

ValidYearAt(s, j) ==
    /\ StandaloneNumberAt(s, j)
    /\ NumberAt(s, j) >= 1500
    /\ NumberAt(s, j) <= 2035

Occurs(lit, s) == \E i \in 1..Len(s) : MatchAt(lit, s, i, FALSE)

\* C4: _find_year returns Unknown or a number of 1500..2035 that stands in the
\* text as a four-digit number with no digit next to it
C4_YearInRange ==
    pc = "done" =>
        \/ ret = UNKNOWN
        \/ \E j \in 1..Len(arg) : ValidYearAt(arg, j) /\ ret = SubSeq(arg, j, j + 3)

\* a text that holds the out-of-range 2036 after a marker, and a valid year later
C4_Witness ==
    /\ pc = "done"
    /\ Occurs(<<"U+00A9", "2", "0", "3", "6">>, arg)
    /\ ret = <<"2", "0", "3", "5">>

\* the markers in the order of their priority
C10_Markers ==
    << <<"U+00A9">>,
       <<"C", "o", "p", "y", "r", "i", "g", "h", "t">>,
       <<"F", "i", "r", "s", "t", " ", "p", "u", "b", "l", "i", "s", "h", "e", "d">>,
       <<"P", "u", "b", "l", "i", "s", "h", "e", "d">>,
       <<"R", "e", "p", "r", "i", "n", "t", "e", "d">> >>

\* position j holds a valid year that starts d <= 60 characters after the end of
\* an occurrence of marker number n
C10_FollowsMarker(s, n, j) ==
    /\ ValidYearAt(s, j)
    /\ \E d \in 0..60 : MatchAt(C10_Markers[n], s, j - d - Len(C10_Markers[n]), TRUE)

\* C10: the result is a year that follows the highest-priority marker that has a
\* year within 60 characters; with no such marker it is the first valid year of
\* the text, or Unknown
C10_MarkerPriority ==
    pc = "done" =>
        LET withYear == {n \in DOMAIN C10_Markers :
                            \E j \in 1..Len(arg) : C10_FollowsMarker(arg, n, j)}
            years == {j \in 1..Len(arg) : ValidYearAt(arg, j)}
        IN  IF withYear # {}
            THEN \E j \in 1..Len(arg) :
                    /\ C10_FollowsMarker(arg, SetMin(withYear), j)
                    /\ ret = SubSeq(arg, j, j + 3)
            ELSE IF years # {}
                 THEN ret = SubSeq(arg, SetMin(years), SetMin(years) + 3)
                 ELSE ret = UNKNOWN

\* a lower-priority marker and its year come first, the copyright sign's year wins
C10_Witness ==
    /\ pc = "done"
    /\ arg = <<"P", "u", "b", "l", "i", "s", "h", "e", "d", "1", "9", "8", "7", "U+00A9", "2", "0", "3", "5">>
    /\ ret = <<"2", "0", "3", "5">>

(***************************************************************************)
(* _guess_language                                                         *)
(***************************************************************************)
\* ord() of the characters that are neither letters nor digits
OtherOrd ==
    [c \in {"\t", "\n", " ", "!", "&", "'", "(", ")", ",", "-", ".", ":", ";", "?", "_", "|",
            "U+00A9", "U+024F", "U+0250", "U+0436", "U+0628", "U+0915", "U+097F", "U+0980",
            "U+0A15", "U+0A95", "U+0B15", "U+0B95", "U+0C15", "U+0C95", "U+0D15",
            "U+2022", "U+4E2D"} |->
        CASE c = "\t" -> 9      [] c = "\n" -> 10     [] c = " " -> 32
          [] c = "!" -> 33      [] c = "&" -> 38      [] c = "'" -> 39
          [] c = "(" -> 40      [] c = ")" -> 41      [] c = "," -> 44
          [] c = "-" -> 45      [] c = "." -> 46      [] c = ":" -> 58
          [] c = ";" -> 59      [] c = "?" -> 63      [] c = "_" -> 95
          [] c = "|" -> 124
          [] c = "U+00A9" -> 169   [] c = "U+024F" -> 591   [] c = "U+0250" -> 592
          [] c = "U+0436" -> 1078  [] c = "U+0628" -> 1576  [] c = "U+0915" -> 2325
          [] c = "U+097F" -> 2431  [] c = "U+0980" -> 2432  [] c = "U+0A15" -> 2581
          [] c = "U+0A95" -> 2709  [] c = "U+0B15" -> 2837  [] c = "U+0B95" -> 2965
          [] c = "U+0C15" -> 3093  [] c = "U+0C95" -> 3221  [] c = "U+0D15" -> 3349
          [] c = "U+2022" -> 8226  [] c = "U+4E2D" -> 20013]

UpperOrd == [c \in UpperChars |-> 64 + CHOOSE i \in DOMAIN UpperSeq : UpperSeq[i] = c]

LowerOrd == [c \in LowerChars |-> 96 + CHOOSE i \in DOMAIN LowerSeq : LowerSeq[i] = c]

DigitOrd == [c \in DigitChars |-> 48 + CHOOSE n \in 0..9 : <<"0", "1", "2", "3", "4", "5", "6", "7", "8", "9">>[n + 1] = c]

\* ord(ch)
Ord(c) ==
    IF c \in LowerChars THEN LowerOrd[c]
    ELSE IF c \in UpperChars THEN UpperOrd[c]
    ELSE IF c \in DigitChars THEN DigitOrd[c]
    ELSE OtherOrd[c]

\* the keys of counts, in the order the dict is built
Scripts ==
    <<"Devanagari", "Bengali", "Gurmukhi", "Gujarati", "Oriya", "Tamil", "Telugu",
      "Kannada", "Malayalam", "Latin", "Arabic", "Cyrillic">>

NoScript == "none"

\* the if/elif chain over the code point
ScriptOfOrd(cp) ==
    IF      2304 <= cp /\ cp <= 2431 THEN "Devanagari"
    ELSE IF 2432 <= cp /\ cp <= 2559 THEN "Bengali"
    ELSE IF 2560 <= cp /\ cp <= 2687 THEN "Gurmukhi"
    ELSE IF 2688 <= cp /\ cp <= 2815 THEN "Gujarati"
    ELSE IF 2816 <= cp /\ cp <= 2943 THEN "Oriya"
    ELSE IF 2944 <= cp /\ cp <= 3071 THEN "Tamil"
    ELSE IF 3072 <= cp /\ cp <= 3199 THEN "Telugu"
    ELSE IF 3200 <= cp /\ cp <= 3327 THEN "Kannada"
    ELSE IF 3328 <= cp /\ cp <= 3455 THEN "Malayalam"
    ELSE IF 1024 <= cp /\ cp <= 1279 THEN "Cyrillic"
    ELSE IF 1536 <= cp /\ cp <= 1791 THEN "Arabic"
    ELSE IF 0 <= cp /\ cp <= 591 THEN "Latin"
    ELSE NoScript

ScriptOf(c) == ScriptOfOrd(Ord(c))

\* the dict of the return statement
LanguageOf(script) ==
    CASE script = "Devanagari" -> <<"H", "i", "n", "d", "i">>
      [] script = "Bengali"    -> <<"B", "e", "n", "g", "a", "l", "i">>
      [] script = "Gurmukhi"   -> <<"P", "u", "n", "j", "a", "b", "i">>
      [] script = "Gujarati"   -> <<"G", "u", "j", "a", "r", "a", "t", "i">>
      [] script = "Oriya"      -> <<"O", "d", "i", "a">>
      [] script = "Tamil"      -> <<"T", "a", "m", "i", "l">>
      [] script = "Telugu"     -> <<"T", "e", "l", "u", "g", "u">>
      [] script = "Kannada"    -> <<"K", "a", "n", "n", "a", "d", "a">>
      [] script = "Malayalam"  -> <<"M", "a", "l", "a", "y", "a", "l", "a", "m">>
      [] script = "Arabic"     -> <<"A", "r", "a", "b", "i", "c">>
      [] script = "Cyrillic"   -> <<"R", "u", "s", "s", "i", "a", "n">>
      [] script = "Latin"      -> <<"E", "n", "g", "l", "i", "s", "h">>
      [] OTHER                 -> UNKNOWN

LANG_MIN_LEN == 40

LANG_SCAN == 5000

LANG_MIN_COUNT == 20

\* counts after the loop over sample[:5000]
ScriptCounts(sample) ==
    LET n    == IF Len(sample) < LANG_SCAN THEN Len(sample) ELSE LANG_SCAN
        seen == [i \in 1..n |-> ScriptOf(sample[i])]
    IN  [k \in DOMAIN Scripts |-> Cardinality({i \in 1..n : seen[i] = Scripts[k]})]

\* max(counts.items(), key=lambda kv: kv[1]): the first key with the largest count
MaxScript(counts) ==
    SetMin({k \in DOMAIN counts : \A j \in DOMAIN counts : counts[j] <= counts[k]})

\* script, n = max(...); Unknown if n < 20, else the label of script
LanguageOfCounts(counts) ==
    LET k == MaxScript(counts)
    IN  IF counts[k] < LANG_MIN_COUNT THEN UNKNOWN ELSE LanguageOf(Scripts[k])

\* _guess_language that measures the sample without strip()
_guess_language_unstripped(sample) ==
    IF Len(sample) < LANG_MIN_LEN THEN UNKNOWN
    ELSE Only({LanguageOfCounts(counts) : counts \in {ScriptCounts(sample)}})

_guess_language(sample) ==
    IF sample = <<>> \/ Len(strip(sample)) < LANG_MIN_LEN THEN UNKNOWN
    ELSE Only({LanguageOfCounts(counts) : counts \in {ScriptCounts(sample)}})

(***************************************************************************)
(* SpecLang: _guess_language on a sample given as runs <<character, n>>    *)
(***************************************************************************)
MaxRuns == 2

LangChars == {" ", "a", "U+0915", "U+0436", "U+4E2D"}

RunLengths == {1, LANG_MIN_COUNT - 1, LANG_MIN_COUNT, LANG_MIN_COUNT + 1}

LongRun == <<"U+4E2D", LANG_SCAN - 10>>

LangRuns == LangChars \X RunLengths

\* a few short runs, or the long run and then fewer short runs
LangInputs ==
    SeqsUpTo(LangRuns, MaxRuns)
        \cup {<<LongRun>> \o rs : rs \in SeqsUpTo(LangRuns, MaxRuns - 1)}

\* the str a sequence of runs stands for
RECURSIVE Expand(_)
Expand(runs) ==
    IF runs = <<>> THEN <<>> ELSE Rep(Head(runs)[1], Head(runs)[2]) \o Expand(Tail(runs))

InitLang ==
    /\ pc = "call"
    /\ arg \in LangInputs
    /\ ret = NoRet
    /\ pdfs = <<>> /\ use_ocr = FALSE /\ rows = <<>>

CallGuessLanguage ==
    /\ pc = "call"
    /\ ret' = _guess_language(Expand(arg))
    /\ pc' = "done"
    /\ UNCHANGED <<arg, pdfs, use_ocr, rows>>

NextLang == CallGuessLanguage

SpecLang == InitLang /\ [][NextLang]_vars

\* number of characters in the first k runs
RECURSIVE RunsLen(_, _)
RunsLen(runs, k) == IF k = 0 THEN 0 ELSE RunsLen(runs, k - 1) + runs[k][2]

\* length of the sample without its leading and trailing white space, from the runs
C9_TrimmedLen(runs) ==
    LET solid == {k \in DOMAIN runs : ~IsSpace(runs[k][1]) /\ runs[k][2] > 0}
    IN  IF solid = {} THEN 0
        ELSE RunsLen(runs, SetMax(solid)) - RunsLen(runs, SetMin(solid) - 1)

\* how many of the first 5000 characters belong to the script, from the runs
RECURSIVE C9_Count(_, _, _)
C9_Count(runs, script, k) ==
    IF k = 0 THEN 0
    ELSE LET first == RunsLen(runs, k - 1) + 1
             last  == IF RunsLen(runs, k) < 5000 THEN RunsLen(runs, k) ELSE 5000
             here  == IF ScriptOf(runs[k][1]) = script /\ last >= first
                      THEN last - first + 1 ELSE 0
         IN  here + C9_Count(runs, script, k - 1)

\* C9: a label other than Unknown is returned only for a sample of trimmed length
\* >= 40 whose largest script count over the first 5000 characters is >= 20, and
\* it is the label of a script with that count; a shorter sample gives Unknown
C9_Language ==
    pc = "done" =>
        LET cnt == [k \in DOMAIN Scripts |-> C9_Count(arg, Scripts[k], Len(arg))]
            mx  == SetMax({cnt[k] : k \in DOMAIN Scripts})
        IN  /\ C9_TrimmedLen(arg) < 40 => ret = UNKNOWN
            /\ ret # UNKNOWN =>
                  /\ C9_TrimmedLen(arg) >= 40
                  /\ mx >= 20
                  /\ \E k \in DOMAIN Scripts : cnt[k] = mx /\ ret = LanguageOf(Scripts[k])

\* 20 Devanagari and 20 Latin characters: a tie at the threshold, one of the two labels
C9_Witness ==
    /\ pc = "done"
    /\ arg = << <<"U+0915", 20>>, <<"a", 20>> >>
    /\ ret = <<"H", "i", "n", "d", "i">>

(***************************************************************************)
(* _guess_title                                                            *)
(***************************************************************************)
\* str.istitle(): upper-case letters only after uncased characters, lower-case
\* letters only after cased ones, and at least one cased character
istitle(t) ==
    /\ \E i \in 1..Len(t) : IsUpperCh(t[i]) \/ IsLowerCh(t[i])
    /\ \A i \in 1..Len(t) :
          LET prevCased == i > 1 /\ (IsUpperCh(t[i - 1]) \/ IsLowerCh(t[i - 1]))
          IN  /\ IsUpperCh(t[i]) => ~prevCased
              /\ IsLowerCh(t[i]) => prevCased

\* str.isupper(): no lower-case letter and at least one upper-case letter
isupper(t) ==
    /\ \E i \in 1..Len(t) : IsUpperCh(t[i])
    /\ \A i \in 1..Len(t) : ~IsLowerCh(t[i])

TitleStopWords ==
    { <<"b", "y">>, <<"e", "d", "i", "t", "e", "d">>, <<"e", "d", "i", "t", "o", "r">>, <<"c", "o", "p", "y", "r", "i", "g", "h", "t">>, <<"p", "u", "b", "l", "i", "s", "h", "e", "d">>,
      <<"p", "u", "b", "l", "i", "s", "h", "e", "r">>, <<"i", "s", "b", "n">>, <<"i", "s", "s", "n">> }

\* re.search(r"\b(by|edited|...)\b", t, re.I)
HasStopWord(t) ==
    \E w \in TitleStopWords : \E i \in 1..Len(t) :
        /\ WordBoundary(t, i)
        /\ MatchAt(w, t, i, TRUE)
        /\ WordBoundary(t, i + Len(w))

\* re.match(r"^[\w :;,'&\-\(\)\.\!\?]+$", t); t is stripped, it ends in no newline
PlainChars(t) ==
    /\ t # <<>>
    /\ \A i \in 1..Len(t) :
          IsWord(t[i]) \/ t[i] \in {" ", ":", ";", ",", "'", "&", "-", "(", ")", ".", "!", "?"}

TITLE_MAX_LINES == 25

TITLE_MIN_LEN == 4

\* score of the stripped line t
TitleScore(t) ==
      (IF istitle(t) THEN 2 ELSE 0)
    + (IF isupper(t) /\ Len(t) <= 80 THEN 1 ELSE 0)
    + (IF 10 <= Len(t) /\ Len(t) <= 120 THEN 1 ELSE 0)
    + (IF PlainChars(t) THEN 1 ELSE 0)
    - (IF Len(t) > 140 THEN 1 ELSE 0)

\* the line is appended to cand
IsCandidate(t) == Len(t) >= TITLE_MIN_LEN /\ ~HasStopWord(t) /\ TitleScore(t) >= 2

_guess_title(lines) ==
    LET n     == IF Len(lines) < TITLE_MAX_LINES THEN Len(lines) ELSE TITLE_MAX_LINES
        t     == [i \in 1..n |-> strip(lines[i])]
        cand  == {i \in 1..n : IsCandidate(t[i])}
        \* sorted(cand, key=(-score, len)) is stable: i comes before j
        before(i, j) ==
            \/ TitleScore(t[i]) > TitleScore(t[j])
            \/ TitleScore(t[i]) = TitleScore(t[j]) /\ Len(t[i]) < Len(t[j])
            \/ TitleScore(t[i]) = TitleScore(t[j]) /\ Len(t[i]) = Len(t[j]) /\ i <= j
    IN  IF cand = {} THEN UNKNOWN
        ELSE t[CHOOSE i \in cand : \A j \in cand : before(i, j)]

(***************************************************************************)
(* SpecTitle: _guess_title on a few lines                                  *)
(***************************************************************************)
MaxLines == 3

TitleLines ==
    { <<"I", "N", "T", "R", "O", "D", "U", "C", "T", "I", "O", "N">>,
      <<"T", "h", "e", " ", "A", "r", "t", " ", "o", "f", " ", "S", "y", "s", "t", "e", "m", "s", " ", "D", "e", "s", "i", "g", "n">>,
      <<"T", "h", "e", " ", "A", "r", "t", " ", "O", "f", " ", "S", "y", "s", "t", "e", "m", "s", " ", "D", "e", "s", "i", "g", "n">>,
      <<"b", "y", " ", "A", ".", " ", "A", "u", "t", "h", "o", "r">>,
      <<" ", " ", "A", " ", "T", "a", "l", "e", " ">>,
      <<"A", "b", "c">>,
      <<"S", "t", "a", "n", "d", "b", "y", " ", "|", " ", "N", "o", "t", "e", "s">>,
      <<"I", "S", "B", "N">>,
      Rep("A", 81),
      Rep("a", 141) }

TitleInputs ==
    SeqsUpTo(TitleLines, MaxLines)
        \cup {Rep(<<"A", "b", "c">>, k) \o <<l>> : k \in {TITLE_MAX_LINES - 1, TITLE_MAX_LINES},
                                       l \in TitleLines}

InitTitle ==
    /\ pc = "call"
    /\ arg \in TitleInputs
    /\ ret = NoRet
    /\ pdfs = <<>> /\ use_ocr = FALSE /\ rows = <<>>

CallGuessTitle ==
    /\ pc = "call"
    /\ ret' = _guess_title(arg)
    /\ pc' = "done"
    /\ UNCHANGED <<arg, pdfs, use_ocr, rows>>

NextTitle == CallGuessTitle

SpecTitle == InitTitle /\ [][NextTitle]_vars

\* C5: of the lines INTRODUCTION, The Art of Systems Design, by A. Author the
\* title-case line is returned: the line with "by" is rejected and the all-caps
\* line scores lower
C5_TitleCaseWins ==
    (pc = "done" /\ arg = << <<"I", "N", "T", "R", "O", "D", "U", "C", "T", "I", "O", "N">>,
                            <<"T", "h", "e", " ", "A", "r", "t", " ", "o", "f", " ", "S", "y", "s", "t", "e", "m", "s", " ", "D", "e", "s", "i", "g", "n">>,
                            <<"b", "y", " ", "A", ".", " ", "A", "u", "t", "h", "o", "r">> >>)
        => ret = <<"T", "h", "e", " ", "A", "r", "t", " ", "o", "f", " ", "S", "y", "s", "t", "e", "m", "s", " ", "D", "e", "s", "i", "g", "n">>

(***************************************************************************)
(* _find_people                                                            *)
(***************************************************************************)
\* (?:By|Written by|Author(?:s)?:), in the order the matcher tries the forms
AuthorLabels == << <<"B", "y">>, <<"W", "r", "i", "t", "t", "e", "n", " ", "b", "y">>, <<"A", "u", "t", "h", "o", "r", "s", ":">>, <<"A", "u", "t", "h", "o", "r", ":">> >>

\* (?:Edited by|Editor(?:s)?:)
EditorLabels == << <<"E", "d", "i", "t", "e", "d", " ", "b", "y">>, <<"E", "d", "i", "t", "o", "r", "s", ":">>, <<"E", "d", "i", "t", "o", "r", ":">> >>

\* [^\n,]
IsNameChar(c) == c # "\n" /\ c # ","

\* the end of the run of [^\n,] that starts at p
RECURSIVE NameRunEnd(_, _)
NameRunEnd(s, p) == IF p < Len(s) /\ IsNameChar(s[p + 1]) THEN NameRunEnd(s, p + 1) ELSE p

\* \s*([^\n,]+) from position e on: where group 1 starts, NoMatch if it cannot
\* match. \s* takes all the white space it can and gives back only what the
\* group needs
NameGroupStart(s, e) ==
    LET r  == SkipSpaces(s, e)
        ps == {p \in e..r : p <= Len(s) /\ IsNameChar(s[p])}
    IN  IF ps = {} THEN NoMatch ELSE SetMax(ps)

\* \b(?:label|...)\s*([^\n,]+) under re.I matches at i with this label
LabelMatchAt(label, s, i) ==
    /\ WordBoundary(s, i)
    /\ MatchAt(label, s, i, TRUE)
    /\ NameGroupStart(s, i + Len(label)) # NoMatch

\* m.group(1) of re.search(r"\b(?:...)\s*([^\n,]+)", text, re.I); <<>> if no match
LabelSearch(labels, text) ==
    LET hits == {i \in 1..Len(text) : \E k \in DOMAIN labels : LabelMatchAt(labels[k], text, i)}
    IN  IF hits = {} THEN <<>>
        ELSE LET i == SetMin(hits)
                 k == SetMin({n \in DOMAIN labels : LabelMatchAt(labels[n], text, i)})
                 p == NameGroupStart(text, i + Len(labels[k]))
             IN  SubSeq(text, p, NameRunEnd(text, p))

\* re.search(r"unknown", meta_author, re.I)
MentionsUnknown(s) == \E i \in 1..Len(s) : MatchAt(<<"u", "n", "k", "n", "o", "w", "n">>, s, i, TRUE)

\* author after the if/elif; an absent (None) meta_author is the empty string here,
\* both are falsy
ResolveAuthor(text, meta_author) ==
    LET g == LabelSearch(AuthorLabels, text)
    IN  IF g # <<>> THEN _clean_name(g)
        ELSE IF meta_author # <<>> /\ ~MentionsUnknown(meta_author)
             THEN _clean_name(meta_author)
             ELSE UNKNOWN

\* editor before the comparison with author
ResolveEditor(text) ==
    LET g == LabelSearch(EditorLabels, text)
    IN  IF g # <<>> THEN _clean_name(g) ELSE UNKNOWN

\* _find_people that compares author and editor without lower()
_find_people_case_sensitive(text, meta_author) ==
    LET author == ResolveAuthor(text, meta_author)
        editor == ResolveEditor(text)
    IN  IF author # UNKNOWN /\ editor = author
        THEN <<author, UNKNOWN>>
        ELSE <<author, editor>>

_find_people(text, meta_author) ==
    LET author == ResolveAuthor(text, meta_author)
        editor == ResolveEditor(text)
    IN  IF author # UNKNOWN /\ lower(editor) = lower(author)
        THEN <<author, UNKNOWN>>
        ELSE <<author, editor>>

(***************************************************************************)
(* SpecPeople: _find_people on a text put together from a few pieces       *)
(***************************************************************************)
MaxPeoplePieces == 4

PeoplePieces ==
    { <<"B", "y", " ">>,
      <<"E", "d", "i", "t", "e", "d", " ", "b", "y", " ">>,
      <<"E", "d", "i", "t", "o", "r", ":", " ">>,
      <<"M", "a", "r", "i", "a", " ", "L", "o", "p", "e", "z">>,
      <<"M", "A", "R", "I", "A", " ", "L", "O", "P", "E", "Z">>,
      <<"D", "r", ".", " ", "J", "a", "n", "e", " ", "R", "o", "e">>,
      <<",", " ">>,
      <<"\n">> }

C6_Text == <<"W", "r", "i", "t", "t", "e", "n", " ", "b", "y", " ", "J", "o", "h", "n", " ", "A", ".", " ", "S", "m", "i", "t", "h", ",", " ", "E", "d", "i", "t", "e", "d", " ", "b", "y", " ", "D", "r", ".", " ", "J", "a", "n", "e", " ", "R", "o", "e", ".">>

C7_Text == <<"B", "y", " ", "M", "a", "r", "i", "a", " ", "L", "o", "p", "e", "z", ",", " ", "E", "d", "i", "t", "e", "d", " ", "b", "y", " ", "M", "a", "r", "i", "a", " ", "L", "o", "p", "e", "z">>

PeopleTexts ==
    {Concat(ps) : ps \in SeqsUpTo(PeoplePieces, MaxPeoplePieces)} \cup {C6_Text, C7_Text}

MetaAuthors == { <<>>, <<"P", "r", "o", "f", ".", " ", "M", "a", "r", "i", "a", " ", "L", "o", "p", "e", "z", ",">>, <<"A", "u", "t", "h", "o", "r", " ", "U", "n", "k", "n", "o", "w", "n">> }

InitPeople ==
    /\ pc = "call"
    /\ arg \in [text : PeopleTexts, meta_author : MetaAuthors]
    /\ ret = NoRet
    /\ pdfs = <<>> /\ use_ocr = FALSE /\ rows = <<>>

CallFindPeople ==
    /\ pc = "call"
    /\ ret' = _find_people(arg.text, arg.meta_author)
    /\ pc' = "done"
    /\ UNCHANGED <<arg, pdfs, use_ocr, rows>>

NextPeople == CallFindPeople

SpecPeople == InitPeople /\ [][NextPeople]_vars

\* C6: "Written by John A. Smith, Edited by Dr. Jane Roe." with no embedded author
\* gives author "John A. Smith" and editor "Jane Roe"
C6_AuthorAndEditor ==
    (pc = "done" /\ arg.text = C6_Text /\ arg.meta_author = <<>>)
        => ret = << <<"J", "o", "h", "n", " ", "A", ".", " ", "S", "m", "i", "t", "h">>, <<"J", "a", "n", "e", " ", "R", "o", "e">> >>

\* C7: author and editor are never the same name up to case; when both searches
\* give the same name the author is kept and the editor is Unknown, and when they
\* give different names both are returned
C7_SamePerson ==
    pc = "done" =>
        LET a0 == ResolveAuthor(arg.text, arg.meta_author)
            e0 == ResolveEditor(arg.text)
        IN  /\ ~(ret[1] # UNKNOWN /\ ret[2] # UNKNOWN /\ lower(ret[1]) = lower(ret[2]))
            /\ ret[1] = a0
            /\ (a0 # UNKNOWN /\ e0 # UNKNOWN /\ lower(a0) = lower(e0)) => ret[2] = UNKNOWN
            /\ lower(a0) # lower(e0) => ret[2] = e0

\* "By Maria Lopez, Edited by Maria Lopez": the author is kept, the editor dropped
C7_Witness ==
    /\ pc = "done"
    /\ arg.text = C7_Text
    /\ arg.meta_author = <<>>
    /\ ret = << <<"M", "a", "r", "i", "a", " ", "L", "o", "p", "e", "z">>, UNKNOWN >>

(***************************************************************************)
(* _find_publisher                                                         *)
(***************************************************************************)
\* str.splitlines() for texts whose only line break is "\n": a line break at the
\* very end opens no further line
RECURSIVE SplitFrom(_, _)
SplitFrom(s, start) ==
    IF start > Len(s) THEN <<>>
    ELSE IF \A i \in start..Len(s) : s[i] # "\n"
         THEN <<SubSeq(s, start, Len(s))>>
         ELSE LET e == CHOOSE i \in start..Len(s) :
                           s[i] = "\n" /\ \A k \in start..(i - 1) : s[k] # "\n"
              IN  <<SubSeq(s, start, e - 1)>> \o SplitFrom(s, e + 1)

splitlines(s) == SplitFrom(s, 1)

\* (Published by|Publisher|Imprint|Printed by)
PublisherLabels ==
    << <<"P", "u", "b", "l", "i", "s", "h", "e", "d", " ", "b", "y">>, <<"P", "u", "b", "l", "i", "s", "h", "e", "r">>, <<"I", "m", "p", "r", "i", "n", "t">>, <<"P", "r", "i", "n", "t", "e", "d", " ", "b", "y">> >>

\* \s*[:\-]\s*(.+) from position e of the line: where group 2 starts, NoMatch if
\* there is no colon or hyphen after the white space or nothing follows it
RemainderStart(ln, e) ==
    LET r == SkipSpaces(ln, e)
    IN  IF r > Len(ln) \/ ln[r] \notin {":", "-"} THEN NoMatch
        ELSE LET q  == SkipSpaces(ln, r + 1)
                 ps == {p \in (r + 1)..q : p <= Len(ln)}
             IN  IF ps = {} THEN NoMatch ELSE SetMax(ps)

\* m.group(2) of re.search(r"\b(...)\s*[:\-]\s*(.+)", ln, re.I); <<>> if no match
LabelledRemainder(ln) ==
    LET at(i, k) == /\ WordBoundary(ln, i)
                    /\ MatchAt(PublisherLabels[k], ln, i, TRUE)
                    /\ RemainderStart(ln, i + Len(PublisherLabels[k])) # NoMatch
        hits == {i \in 1..Len(ln) : \E k \in DOMAIN PublisherLabels : at(i, k)}
    IN  IF hits = {} THEN <<>>
        ELSE LET i == SetMin(hits)
                 k == SetMin({n \in DOMAIN PublisherLabels : at(i, n)})
             IN  From(ln, RemainderStart(ln, i + Len(PublisherLabels[k])))

\* the alternatives of the split pattern [;|•]|Tel:|Phone:|Fax:|Email:|www\.
PublisherSeparators ==
    { <<";">>, <<"|">>, <<"U+2022">>, <<"T", "e", "l", ":">>, <<"P", "h", "o", "n", "e", ":">>, <<"F", "a", "x", ":">>, <<"E", "m", "a", "i", "l", ":">>, <<"w", "w", "w", ".">> }

\* re.split(pattern, s)[0]: s up to the first separator, matched as written
BeforeSeparator(s) ==
    LET hits == {i \in 1..Len(s) : \E sep \in PublisherSeparators : MatchAt(sep, s, i, FALSE)}
    IN  IF hits = {} THEN s ELSE SubSeq(s, 1, SetMin(hits) - 1)

PUBLISHER_MIN_LEN == 2

PUBLISHER_MAX_LEN == 120

FALLBACK_LINES == 80

\* cand of a line the label pattern matches
PublisherCandidate(ln) ==
    CollapseSpaces(strip(BeforeSeparator(strip(LabelledRemainder(ln)))))

GoodLength(s) == PUBLISHER_MIN_LEN <= Len(s) /\ Len(s) <= PUBLISHER_MAX_LEN

PublisherWords ==
    { <<"P", "r", "e", "s", "s">>, <<"P", "u", "b", "l", "i", "c", "a", "t", "i", "o", "n", "s">>, <<"P", "u", "b", "l", "i", "s", "h", "e", "r", "s">>, <<"U", "n", "i", "v", "e", "r", "s", "i", "t", "y">>, <<"H", "o", "u", "s", "e">>, <<"B", "o", "o", "k", "s">> }

\* re.search(r"\b(Press|...|Books)\b", ln, re.I)
HasPublisherWord(ln) ==
    \E w \in PublisherWords : \E i \in 1..Len(ln) :
        /\ WordBoundary(ln, i)
        /\ MatchAt(w, ln, i, TRUE)
        /\ WordBoundary(ln, i + Len(w))

_find_publisher(text) ==
    LET lines   == splitlines(text)
        primary == {n \in DOMAIN lines :
                       /\ LabelledRemainder(lines[n]) # <<>>
                       /\ GoodLength(PublisherCandidate(lines[n]))}
        last    == IF Len(lines) < FALLBACK_LINES THEN Len(lines) ELSE FALLBACK_LINES
        backup  == {n \in 1..last :
                       /\ HasPublisherWord(lines[n])
                       /\ GoodLength(strip(lines[n]))}
    IN  IF primary # {} THEN PublisherCandidate(lines[SetMin(primary)])
        ELSE IF backup # {} THEN strip(lines[SetMin(backup)])
        ELSE UNKNOWN

(***************************************************************************)
(* SpecPublisher: _find_publisher on a text put together from a few pieces *)
(***************************************************************************)
MaxPublisherPieces == 4

PublisherPieces ==
    { <<"P", "u", "b", "l", "i", "s", "h", "e", "d", " ", "b", "y">>,
      <<"p", "u", "b", "l", "i", "s", "h", "e", "r">>,
      <<":", " ">>,
      <<" ", "-", " ", " ">>,
      <<"O", "x", "f", "o", "r", "d", " ", "U", "n", "i", "v", "e", "r", "s", "i", "t", "y", " ", "P", "r", "e", "s", "s">>,
      <<"X">>,
      <<";", " ">>,
      <<"T", "e", "l", ":", " ", "1", "2", "3">>,
      <<"\n">>,
      Rep("y", PUBLISHER_MAX_LEN - 1) }

C8_Text == <<"P", "u", "b", "l", "i", "s", "h", "e", "d", " ", "b", "y", ":", " ", "O", "x", "f", "o", "r", "d", " ", "U", "n", "i", "v", "e", "r", "s", "i", "t", "y", " ", "P", "r", "e", "s", "s", ";", " ", "T", "e", "l", ":", " ", "1", "2", "3", "-", "4", "5", "6">>

C8_TextNoColon == <<"P", "u", "b", "l", "i", "s", "h", "e", "d", " ", "b", "y", " ", "O", "x", "f", "o", "r", "d", " ", "U", "n", "i", "v", "e", "r", "s", "i", "t", "y", " ", "P", "r", "e", "s", "s", ";", " ", "T", "e", "l", ":", " ", "1", "2", "3", "-", "4", "5", "6">>

C8_TextLowerTel == <<"P", "u", "b", "l", "i", "s", "h", "e", "d", " ", "b", "y", ":", " ", "O", "x", "f", "o", "r", "d", " ", "U", "n", "i", "v", "e", "r", "s", "i", "t", "y", " ", "P", "r", "e", "s", "s", " ", "t", "e", "l", ":", " ", "1", "2", "3", "-", "4", "5", "6">>

PublisherInputs ==
    {Concat(ps) : ps \in SeqsUpTo(PublisherPieces, MaxPublisherPieces)}
        \cup {C8_Text, C8_TextNoColon, C8_TextLowerTel}
        \cup {Rep("\n", k) \o <<"A", "c", "m", "e", " ", "B", "o", "o", "k", "s">> : k \in {FALLBACK_LINES - 1, FALLBACK_LINES}}

InitPublisher ==
    /\ pc = "call"
    /\ arg \in PublisherInputs
    /\ ret = NoRet
    /\ pdfs = <<>> /\ use_ocr = FALSE /\ rows = <<>>

CallFindPublisher ==
    /\ pc = "call"
    /\ ret' = _find_publisher(arg)
    /\ pc' = "done"
    /\ UNCHANGED <<arg, pdfs, use_ocr, rows>>

NextPublisher == CallFindPublisher

SpecPublisher == InitPublisher /\ [][NextPublisher]_vars

\* C8: the remainder after the label "Published by", cut at the first separator,
\* is the result, here "Oxford University Press": with the colon and "Tel:", and
\* the same with the colon absent or the separator written "tel:"
C8_PrimaryPass ==
    (pc = "done" /\ arg \in {C8_Text, C8_TextNoColon, C8_TextLowerTel})
        => ret = <<"O", "x", "f", "o", "r", "d", " ", "U", "n", "i", "v", "e", "r", "s", "i", "t", "y", " ", "P", "r", "e", "s", "s">>

(***************************************************************************)
(* parse_pdf                                                               *)
(*                                                                         *)
(* What fitz and the OCR tools give for one file is a record:              *)
(*   fault    "none", or the statement of the try block that raises:       *)
(*            "open" (fitz.open), "metadata" (doc.metadata), "infer" (any  *)
(*            later statement)                                             *)
(*   title, author   doc.metadata, <<>> for an absent (None) entry         *)
(*   pages    the text of every page; len(doc) = doc.page_count = Len      *)
(*   bad      the pages whose load_page(i).get_text raises                 *)
(*   ocr      what pytesseract reads from the first three pages, <<>> when *)
(*            convert_from_path or image_to_string raises                  *)
(***************************************************************************)
\* "\n".join(parts)
RECURSIVE Join(_)
Join(parts) ==
    IF parts = <<>> THEN <<>>
    ELSE IF Len(parts) = 1 THEN parts[1]
    ELSE parts[1] \o <<"\n">> \o Join(Tail(parts))

\* out of _front_text after the pages from i on: a page that raises is skipped
RECURSIVE PagesFrom(_, _, _)
PagesFrom(doc, i, last) ==
    IF i > last THEN <<>>
    ELSE IF i \in doc.bad THEN PagesFrom(doc, i + 1, last)
    ELSE <<doc.pages[i]>> \o PagesFrom(doc, i + 1, last)

_front_text(doc, pages) ==
    LET last == IF pages < Len(doc.pages) THEN pages ELSE Len(doc.pages)
    IN  strip(Join(PagesFrom(doc, 1, last)))

\* _ocr_first_pages: the transcript, "" when anything raises
_ocr_first_pages(doc) == doc.ocr

\* str(n) for n >= 0
RECURSIVE Str(_)
Str(n) ==
    LET d == <<"0", "1", "2", "3", "4", "5", "6", "7", "8", "9">>[(n % 10) + 1]
    IN  IF n < 10 THEN <<d>> ELSE Str(n \div 10) \o <<d>>

FRONT_PAGES == 8

LANG_PAGES == 12

OCR_MIN_LEN == 40

TitlePlaceholders == { <<>>, <<"u", "n", "t", "i", "t", "l", "e", "d">>, <<"u", "n", "k", "n", "o", "w", "n">> }

\* the record of the except branch
UnknownRecord ==
    [f \in {"Book Title", "Author", "Editor", "Year of Publishing", "Publisher",
            "Language", "Number of Pages", "Format"} |->
        IF f = "Format" THEN <<"P", "D", "F">> ELSE UNKNOWN]

\* the text the extractors read
SelectedText(doc, ocr_on) ==
    LET text == _front_text(doc, FRONT_PAGES)
        ocr  == _ocr_first_pages(doc)
    IN  IF ocr_on /\ Len(text) < OCR_MIN_LEN /\ Len(ocr) > Len(text) THEN ocr ELSE text

\* the record of the try branch, given the selected text
InferredRecord(doc, text) ==
    LET meta_title == strip(doc.title)
        nonblank   == SelectSeq(splitlines(text), LAMBDA ln : strip(ln) # <<>>)
        title      == IF lower(meta_title) \in TitlePlaceholders
                      THEN OrUnknown(_guess_title(nonblank))
                      ELSE meta_title
        people     == _find_people(text, doc.author)
        lang_text  == IF Len(doc.pages) <= FRONT_PAGES THEN text
                      ELSE _front_text(doc, IF LANG_PAGES < Len(doc.pages)
                                            THEN LANG_PAGES ELSE Len(doc.pages))
    IN  [f \in {"Book Title", "Author", "Editor", "Year of Publishing", "Publisher",
                "Language", "Number of Pages", "Format"} |->
            CASE f = "Book Title"         -> OrUnknown(title)
              [] f = "Author"             -> OrUnknown(people[1])
              [] f = "Editor"             -> OrUnknown(people[2])
              [] f = "Year of Publishing" -> OrUnknown(_find_year(text))
              [] f = "Publisher"          -> OrUnknown(_find_publisher(text))
              [] f = "Language"           -> OrUnknown(_guess_language(lang_text))
              [] f = "Number of Pages"    -> IF Len(doc.pages) # 0 THEN Str(Len(doc.pages))
                                             ELSE UNKNOWN
              [] f = "Format"             -> <<"P", "D", "F">>]

\* parse_pdf whose except clause does not cover the reading of the metadata: the
\* failure is taken for absent metadata
parse_pdf_metadata_unguarded(doc, ocr_on) ==
    IF doc.fault \in {"open", "infer"} THEN UnknownRecord
    ELSE IF doc.fault = "metadata"
         THEN Only({InferredRecord([doc EXCEPT !.title = <<>>, !.author = <<>>], text) :
                        text \in {SelectedText(doc, ocr_on)}})
         ELSE Only({InferredRecord(doc, text) : text \in {SelectedText(doc, ocr_on)}})

parse_pdf(doc, ocr_on) ==
    IF doc.fault # "none" THEN UnknownRecord
    ELSE Only({InferredRecord(doc, text) : text \in {SelectedText(doc, ocr_on)}})

(***************************************************************************)
(* build_catalog over a directory of files                                 *)
(***************************************************************************)
MaxDocs == 2

Doc(fault, title, author, pages, bad, ocr) ==
    [fault |-> fault, title |-> title, author |-> author,
     pages |-> pages, bad |-> bad, ocr |-> ocr]

FrontPage == <<"A", " ", "T", "a", "l", "e", " ", "O", "f", " ", "T", "w", "o", " ", "C", "i", "t", "i", "e", "s", "\n", "B", "y", " ", "M", "a", "r", "i", "a", " ", "L", "o", "p", "e", "z", ",", " ", "E", "d", "i", "t", "e", "d", " ", "b", "y", " ", "D", "r", ".", " ", "J", "a", "n", "e", " ", "R", "o", "e", "\n", "C", "o", "p", "y", "r", "i", "g", "h", "t", " ", "1", "9", "9", "9", "\n", "P", "u", "b", "l", "i", "s", "h", "e", "r", ":", " ", "A", "c", "m", "e", " ", "B", "o", "o", "k", "s", ";", " ", "T", "e", "l", ":", " ", "1">>

ShortPage == <<"B", "y", " ", "D", "r", ".">>

BlankPage == <<" ", " ", "\n", "\t">>

HindiPage == Rep("U+0915", 100)

Transcript == <<"S", "c", "a", "n", "n", "e", "d", " ", "O", "l", "d", " ", "B", "o", "o", "k", "\n", "U+00A9", " ", "2", "0", "3", "5", " ", "U", "n", "i", "v", "e", "r", "s", "i", "t", "y", " ", "P", "r", "e", "s", "s", "\n", "E", "d", "i", "t", "o", "r", ":", " ", "M", "A", "R", "I", "A", " ", "L", "O", "P", "E", "Z">>

\* twelve pages: text on the first, nothing up to the eighth, Devanagari on the ninth
LongBook == <<FrontPage>> \o [i \in 1..7 |-> <<>>] \o <<HindiPage>> \o [i \in 1..3 |-> <<>>]

Layouts == << <<>>, <<FrontPage>>, <<ShortPage>>, <<ShortPage, FrontPage>>,
              <<BlankPage>>, LongBook >>

Metas == << [title |-> <<"U", "n", "t", "i", "t", "l", "e", "d">>,  author |-> <<"u", "n", "k", "n", "o", "w", "n">>],
            [title |-> <<" ", " ">>,        author |-> <<"P", "r", "o", "f", ".", " ", "M", "a", "r", "i", "a", " ", "L", "o", "p", "e", "z", ",">>],
            [title |-> <<" ", "M", "y", " ", "B", "o", "o", "k", " ">>, author |-> <<>>] >>

\* the files of the directory, numbered in the order of their lower-cased names
Files ==
    [k \in 1..6 |-> Doc(<<"open", "metadata", "infer">>[((k - 1) % 3) + 1],
                        Metas[3].title, Metas[2].author,
                        Layouts[IF k > 3 THEN 4 ELSE 2],
                        IF k > 3 THEN {1} ELSE {}, Transcript)]
    \o [k \in 1..12 |-> Doc("none", <<>>, <<>>, Layouts[((k - 1) % 6) + 1],
                            IF k > 6 THEN {1} ELSE {}, Transcript)]
    \o [k \in 1..6 |-> Doc("none", Metas[((k - 1) % 3) + 1].title,
                           Metas[((k - 1) % 3) + 1].author,
                           Layouts[IF k > 3 THEN 3 ELSE 2], {}, Transcript)]
    \o [k \in 1..2 |-> Doc("none", <<>>, <<>>, Layouts[IF k = 1 THEN 1 ELSE 3], {}, <<>>)]

\* str(p.resolve())
SourceFile(f) == <<"/", "b", "o", "o", "k", "s", "/">> \o Str(f) \o <<".", "p", "d", "f">>

\* sorted(..., key=lambda p: p.name.lower()) by insertion
RECURSIVE SortedByName(_)
SortedByName(listing) ==
    IF listing = <<>> THEN <<>>
    ELSE LET rest == SortedByName(Tail(listing))
             f    == Head(listing)
             n    == Cardinality({i \in DOMAIN rest : rest[i] <= f})
         IN  SubSeq(rest, 1, n) \o <<f>> \o SubSeq(rest, n + 1, Len(rest))

\* what input_dir.rglob("*.pdf") can list: distinct files in any order
Listings ==
    {l \in SeqsUpTo(DOMAIN Files, MaxDocs) :
        \A i, j \in DOMAIN l : i # j => l[i] # l[j]}

Init ==
    /\ pc = "loop"
    /\ \E listing \in Listings : pdfs = SortedByName(listing)
    /\ use_ocr \in BOOLEAN
    /\ rows = <<>>
    /\ arg = NoArg /\ ret = NoRet

\* one turn of the loop: rec = parse_pdf(p, use_ocr); rec["Source File"] = ...;
\* rows.append(rec)
ParseNext ==
    /\ pc = "loop"
    /\ Len(rows) < Len(pdfs)
    /\ LET f == pdfs[Len(rows) + 1]
       IN  rows' = Append(rows, parse_pdf(Files[f], use_ocr)
                                    @@ ("Source File" :> SourceFile(f)))
    /\ UNCHANGED <<pc, arg, ret, pdfs, use_ocr>>

\* after the loop: the rows become the sheet
WriteCatalog ==
    /\ pc = "loop"
    /\ Len(rows) = Len(pdfs)
    /\ pc' = "done"
    /\ UNCHANGED <<arg, ret, pdfs, use_ocr, rows>>

Next == ParseNext \/ WriteCatalog

Spec == Init /\ [][Next]_vars

(***************************************************************************)
(* Claims about the records and the batch                                  *)
(***************************************************************************)
CoreFields ==
    {"Book Title", "Author", "Editor", "Year of Publishing", "Publisher",
     "Language", "Number of Pages", "Format"}

Core(row) == [f \in CoreFields |-> row[f]]

\* C1: the record parse_pdf returns for a file has exactly the eight core fields
\* and each of them is a non-empty string, a real value or "Unknown"; the row of
\* the sheet is that record with the source path added
C1_AllFieldsPopulated ==
    \A i \in DOMAIN rows :
        /\ DOMAIN rows[i] = CoreFields \cup {"Source File"}
        /\ \A f \in CoreFields : rows[i][f] # <<>> /\ Len(rows[i][f]) >= 1

\* a file with a placeholder title and an unusable embedded author, read by OCR:
\* the title is guessed, the author stays Unknown
C1_Witness ==
    /\ pc = "done" /\ use_ocr
    /\ \E i \in DOMAIN rows :
        /\ Files[pdfs[i]].title = <<"U", "n", "t", "i", "t", "l", "e", "d">>
        /\ Files[pdfs[i]].pages = <<ShortPage>>
        /\ rows[i]["Book Title"] = <<"S", "c", "a", "n", "n", "e", "d", " ", "O", "l", "d", " ", "B", "o", "o", "k">>
        /\ rows[i]["Author"] = UNKNOWN
        /\ rows[i]["Number of Pages"] = <<"1">>

\* the pages _front_text asks for
PagesLoaded(doc) ==
    1..(IF Len(doc.pages) <= FRONT_PAGES THEN Len(doc.pages)
        ELSE IF LANG_PAGES < Len(doc.pages) THEN LANG_PAGES ELSE Len(doc.pages))

\* an error reaches the except clause of parse_pdf
Escapes(doc) == doc.fault # "none"

\* an error is raised while the text of the file is read or its fields inferred,
\* caught by parse_pdf or before
RaisesError(doc) == Escapes(doc) \/ doc.bad \cap PagesLoaded(doc) # {}

C2_RowPerDocument ==
    /\ Len(rows) <= Len(pdfs)
    /\ pc = "done" => Len(rows) = Len(pdfs)
    /\ \A i \in DOMAIN rows : rows[i]["Source File"] = SourceFile(pdfs[i])

\* C2 as stated: one row per file, and every file that raises an error while its
\* text is read or its fields are inferred has all core fields Unknown but Format
C2_AnyErrorGivesUnknown ==
    /\ C2_RowPerDocument
    /\ \A i \in DOMAIN rows :
        RaisesError(Files[pdfs[i]]) => Core(rows[i]) = UnknownRecord

\* C2, with the failing files being those whose error reaches the except clause
\* of parse_pdf: build_catalog gives one row per file in the sorted order, the
\* row of a failing file has all core fields Unknown but Format "PDF", and the
\* row of any other file is the record that file gives on its own, whatever the
\* other files of the directory do
C2_Containment ==
    /\ C2_RowPerDocument
    /\ \A i \in DOMAIN rows :
        /\ Escapes(Files[pdfs[i]]) => Core(rows[i]) = UnknownRecord
        /\ ~Escapes(Files[pdfs[i]]) =>
               /\ Core(rows[i]) = parse_pdf(Files[pdfs[i]], use_ocr)
               /\ rows[i]["Number of Pages"] =
                      (IF Files[pdfs[i]].pages = <<>> THEN UNKNOWN
                       ELSE Str(Len(Files[pdfs[i]].pages)))

\* a file without readable metadata, then a file whose first page cannot be
\* loaded: the first row is all Unknown, the second is filled from the second page
C2_Witness ==
    /\ pc = "done" /\ Len(rows) = 2
    /\ Files[pdfs[1]].fault = "metadata"
    /\ Core(rows[1]) = UnknownRecord
    /\ Files[pdfs[2]].fault = "none" /\ Files[pdfs[2]].bad = {1}
    /\ rows[2]["Book Title"] = <<"A", " ", "T", "a", "l", "e", " ", "O", "f", " ", "T", "w", "o", " ", "C", "i", "t", "i", "e", "s">>
    /\ rows[2]["Number of Pages"] = <<"2">>

====
